---------------------------- MODULE Spec2Model ----------------------------
(***************************************************************************)
(* Model of the price-tracking and alert-notification batch job            *)
(* (price-checker.js) of ncmesh-parts-app.                                 *)
(*                                                                         *)
(* Numeric prices are integers counted in mills (1/1000 dollar), so that   *)
(* a scraped value may carry more digits than a display string keeps.      *)
(* A display string such as "$36.50" is a record of its leading text and   *)
(* the amount it shows, in cents.  Percent changes are compared as exact   *)
(* fractions diff/old.  Timestamps are logical: one tick per checked       *)
(* worklist entry.                                                         *)
(***************************************************************************)
EXTENDS Integers, Sequences, FiniteSets, TLC

VARIABLES
    partsFile,        \* data/parts.json: the catalog, a sequence of items
    pricesFile,       \* data/prices.json: [exists, products, lastRun]
    dbFile,           \* data/ncmesh.db: "ok", "absent" or "corrupt"
    apiKey,           \* process.env.RESEND_API_KEY is set
    subs,             \* rows of table price_alerts, by id
    run,              \* number of runs started so far
    pc,               \* position of main()
    partsData,        \* main: the parsed catalog, in memory
    products,         \* main: the worklist
    idx,              \* main: position of the for loop in the worklist
    changedProducts,  \* main: worklist positions reported as changed
    db,               \* main: the database handle is open
    subscribers,      \* notifySubscribers: rows the lookup returned
    k,                \* notifySubscribers: position of the send loop
    out,              \* last line the run printed to stdout
    synced,           \* value returned by syncBackToParts in this run
    partsWritten,     \* parts.json was written in this run
    killedAt,         \* where the process was terminated
    partsFile0,       \* history: parts.json as the run found it
    pricesFile0,      \* history: prices.json as the run found it
    products0,        \* history: the worklist as the run built it
    subs0,            \* history: price_alerts as the run found it
    obs,              \* history: what each entry's fetch and extraction gave
    script,           \* << >>, or the results each entry may get in every run
    prevDone,         \* history: the previous run completed
    sendLog,          \* history: send attempts of this run, in order
    refProducts,      \* history: the worklist as checked with notifications working
    refChanged,       \* history: the changed list with notifications working
    partsState,       \* data/parts.json is "ok", "missing" or "corrupt"
    exitCode,         \* exit code of the run, NULL while it has none
    capRejected,      \* history: products whose last reported change the cap refused
    req,              \* alerts routes: the last request and its response
    nreq,             \* alerts routes: number of requests served
    imageCache,       \* rows of table image_cache, at most one per asin
    clock,            \* image proxy: hours since the server started
    imgReq,           \* image proxy: the last request and its response
    events,           \* history: the fetches and the delays of this run, in order
    html,             \* extractGenericPrice: the page it was given last
    extracted         \* extractGenericPrice: what it returned for that page

vars == << partsFile, pricesFile, dbFile, apiKey, subs, run, pc, partsData,
           products, idx, changedProducts, db, subscribers, k, out, synced,
           partsWritten, killedAt, partsFile0, pricesFile0, products0, subs0,
           obs, script, prevDone, sendLog, refProducts, refChanged,
           partsState, exitCode, capRejected, req, nreq, imageCache, clock, imgReq,
           events, html, extracted >>

\* the state of the web service, which the batch job never touches
serviceVars == << req, nreq, imageCache, clock, imgReq >>

\* the page and the result of the extractor taken by itself
pageVars == << html, extracted >>

-----------------------------------------------------------------------------
(* Bounds of the model *)

MaxRuns == 2

\* requests the alerts routes serve
MaxRequests == 2

\* hours the image proxy is followed for
MaxClock == 48

-----------------------------------------------------------------------------
(* Values *)

NULL == -1                      \* a number that is null
NoTime == 0                     \* a timestamp that is null
NoUrl == [host |-> "", path |-> "", tag |-> FALSE]
NoPct == [diff |-> 0, old |-> 0]            \* _pctChange is undefined

CHANGE_PCT == 5
MAX_CHANGE == 80
DEFAULT_THRESHOLD == 5

Usd(c) == [text |-> "$", cents |-> c]

RECURSIVE SeqMax(_)
SeqMax(s) == IF s = << >> THEN 0
             ELSE IF Head(s) > SeqMax(Tail(s)) THEN Head(s) ELSE SeqMax(Tail(s))

Abs(n) == IF n < 0 THEN -n ELSE n

-----------------------------------------------------------------------------
(* Pure functions of price-checker.js *)

detectSource(url) ==
    CASE url.host \in {"www.amazon.com", "amazon.com"} -> "amazon"
      [] url.host \in {"www.seeedstudio.com"} -> "seeed"
      [] OTHER -> "generic"

shouldSkip_KeepsVariants(item) ==
    \/ item.url.host \in {"discord.com", "discord.gg"}
    \/ item.price.text = "Contact on Discord"
    \/ (item.asin = "" /\ item.url = NoUrl)

shouldSkip(item) ==
    \/ item.price.text = "From $"
    \/ item.url.host \in {"discord.com", "discord.gg"}
    \/ item.price.text = "Contact on Discord"
    \/ (item.asin = "" /\ item.url = NoUrl)

parsePartsPrice(priceStr) ==
    IF priceStr.text = "" THEN NULL
    ELSE IF priceStr.text = "Contact on Discord" THEN NULL
    ELSE priceStr.cents * 10

\* toFixed(2): the nearest cent (no price of the model lies halfway)
formatPartsPrice(price) == Usd((price + 5) \div 10)

buildUrl(item) ==
    IF item.url # NoUrl THEN item.url
    ELSE IF item.asin # "" THEN [host |-> "www.amazon.com", path |-> item.asin, tag |-> TRUE]
    ELSE NoUrl

HistoryKey(p) == IF p.asin # "" THEN [asin |-> p.asin, url |-> NoUrl]
                 ELSE [asin |-> "", url |-> p.url]

ItemKey(item) == IF item.asin # "" THEN [asin |-> item.asin, url |-> NoUrl]
                 ELSE [asin |-> "", url |-> buildUrl(item)]

ExistingFor_None(existingPrices, key) == 0

\* priceHistory[key]: the last record of prices.json filed under the key
ExistingFor(existingPrices, key) ==
    LET ps == existingPrices.products
        hits == {j \in 1..Len(ps) : HistoryKey(ps[j]) = key}
    IN  IF hits = {} THEN 0 ELSE CHOOSE j \in hits : \A h \in hits : h <= j

Eligible(item) ==
    /\ ~shouldSkip(item)
    /\ buildUrl(item) # NoUrl
    /\ parsePartsPrice(item.price) # NULL

WorklistEntry_FromCatalog(item, existingPrices) ==
    LET url == buildUrl(item)
        e == ExistingFor(existingPrices, ItemKey(item))
        existing == existingPrices.products[e]
    IN  [ name |-> item.name,
          price |-> parsePartsPrice(item.price),
          priceDisplay |-> item.price,
          url |-> url,
          source |-> IF item.asin # "" THEN "amazon" ELSE detectSource(url),
          asin |-> item.asin,
          lastChecked |-> IF e # 0 THEN existing.lastChecked ELSE NoTime,
          lastChanged |-> IF e # 0 THEN existing.lastChanged ELSE NoTime,
          pct |-> NoPct ]

WorklistEntry(item, existingPrices) ==
    LET url == buildUrl(item)
        e == ExistingFor(existingPrices, ItemKey(item))
        existing == existingPrices.products[e]
    IN  [ name |-> item.name,
          price |-> IF e # 0 THEN existing.price ELSE parsePartsPrice(item.price),
          priceDisplay |-> IF e # 0 THEN existing.priceDisplay ELSE item.price,
          url |-> url,
          source |-> IF item.asin # "" THEN "amazon" ELSE detectSource(url),
          asin |-> item.asin,
          lastChecked |-> IF e # 0 THEN existing.lastChecked ELSE NoTime,
          lastChanged |-> IF e # 0 THEN existing.lastChanged ELSE NoTime,
          pct |-> NoPct ]

RECURSIVE buildProductList(_, _)
buildProductList(parts, existingPrices) ==
    IF parts = << >> THEN << >>
    ELSE IF Eligible(Head(parts))
         THEN << WorklistEntry(Head(parts), existingPrices) >>
                 \o buildProductList(Tail(parts), existingPrices)
         ELSE buildProductList(Tail(parts), existingPrices)


-----------------------------------------------------------------------------
(* checkProduct: the comparison and the update of the entry *)

\* what fetchPage and the extractor of the entry's source give for one entry:
\* the fetch throws, or the page yields a number or null
FetchResults ==
    {[kind |-> "fail", price |-> NULL]}
      \cup {[kind |-> "page", price |-> v] : v \in {NULL, 0, 17996, 21000, 95000}}

NoObs == [kind |-> "none", price |-> NULL, old |-> NULL]

PctChange(newPrice, oldPrice) == [diff |-> Abs(newPrice - oldPrice), old |-> oldPrice]

\* pct > n / 100
PctExceeds(pct, n) == pct.diff * 100 > n * pct.old

Extracted_NoNullCheck(res) == res.kind = "page"

Extracted_AllowsZero(res) == res.kind = "page" /\ res.price # NULL

Extracted(res) == res.kind = "page" /\ res.price # NULL /\ res.price > 0

IsChanged_AtThreshold(res, product) ==
    /\ res.kind = "page" /\ res.price # NULL /\ res.price > 0
    /\ Abs(res.price - product.price) * 100 >= CHANGE_PCT * product.price

IsChanged(res, product) ==
    Extracted(res) /\ PctExceeds(PctChange(res.price, product.price), CHANGE_PCT)

IsDrop_AnyChange(res, product) == IsChanged(res, product)

IsDrop(res, product) == IsChanged(res, product) /\ res.price < product.price

Updated(product, newPrice, now) ==
    [product EXCEPT !.price = newPrice,
                    !.priceDisplay = formatPartsPrice(newPrice),
                    !.lastChanged = now,
                    !.pct = PctChange(newPrice, product.price)]

Checked(product, now) == [product EXCEPT !.lastChecked = now]

checkProduct_MarksFailedFetch(product, res, now, threw) ==
    IF res.kind = "fail" THEN Checked(product, now)
    ELSE IF IsChanged(res, product)
         THEN IF threw THEN Updated(product, res.price, now)
              ELSE Checked(Updated(product, res.price, now), now)
         ELSE Checked(product, now)

\* the entry when checkProduct returns, the notification step having returned
\* (threw = FALSE) or thrown into the catch clause (threw = TRUE)
checkProduct(product, res, now, threw) ==
    IF res.kind = "fail" THEN product
    ELSE IF IsChanged(res, product)
         THEN IF threw THEN Updated(product, res.price, now)
              ELSE Checked(Updated(product, res.price, now), now)
         ELSE Checked(product, now)

\* the value checkProduct returns
checkProductReturns(product, res, threw) == IsChanged(res, product) /\ ~threw

-----------------------------------------------------------------------------
(* notifySubscribers: the lookup *)

ProductId(product) == IF product.asin # "" THEN product.asin ELSE product.name

Matches_IgnoresActive(row, productId, pct) ==
    /\ row.product_id = productId
    /\ row.threshold_pct * pct.old <= pct.diff * 100

Matches(row, productId, pct) ==
    /\ row.product_id = productId
    /\ row.active
    /\ row.threshold_pct * pct.old <= pct.diff * 100

RECURSIVE SelectFrom(_, _, _, _)
SelectFrom(table, id, productId, pct) ==
    IF id > Len(table) THEN << >>
    ELSE (IF Matches(table[id], productId, pct) THEN << table[id] >> ELSE << >>)
            \o SelectFrom(table, id + 1, productId, pct)

SelectSubscribers(table, productId, pct) == SelectFrom(table, 1, productId, pct)

-----------------------------------------------------------------------------
(* syncBackToParts *)

Reliable_NoCap(prods, changed) == changed

Reliable(prods, changed) ==
    SelectSeq(changed, LAMBDA i : ~PctExceeds(prods[i].pct, MAX_CHANGE))

\* byAsin[asin] and byUrl[url]: the position in `reliable` of the last entry
\* filed under the key, 0 when there is none
ByAsin(prods, reliable, asin) ==
    SeqMax([j \in 1..Len(reliable) |->
              IF prods[reliable[j]].asin # "" /\ prods[reliable[j]].asin = asin
              THEN j ELSE 0])

ByUrl(prods, reliable, url) ==
    SeqMax([j \in 1..Len(reliable) |->
              IF prods[reliable[j]].asin = "" /\ prods[reliable[j]].url = url
              THEN j ELSE 0])

SyncMatch_UrlFirst(item, prods, reliable) ==
    IF item.url # NoUrl /\ ByUrl(prods, reliable, item.url) # 0
    THEN ByUrl(prods, reliable, item.url)
    ELSE IF item.asin # "" /\ ByAsin(prods, reliable, item.asin) # 0
         THEN ByAsin(prods, reliable, item.asin)
         ELSE 0

\* the position in `reliable` of the entry whose price the item takes, or 0
SyncMatch(item, prods, reliable) ==
    IF item.asin # "" /\ ByAsin(prods, reliable, item.asin) # 0
    THEN ByAsin(prods, reliable, item.asin)
    ELSE IF item.url # NoUrl /\ ByUrl(prods, reliable, item.url) # 0
         THEN ByUrl(prods, reliable, item.url)
         ELSE 0

syncBackToParts(parts, prods, changed) ==
    LET reliable == Reliable(prods, changed)
        hit(j) == SyncMatch(parts[j], prods, reliable)
    IN  [ parts |-> [j \in 1..Len(parts) |->
                       IF hit(j) # 0
                       THEN [parts[j] EXCEPT !.price =
                                formatPartsPrice(prods[reliable[hit(j)]].price)]
                       ELSE parts[j]],
          updated |-> Cardinality({j \in 1..Len(parts) : hit(j) # 0}) ]


-----------------------------------------------------------------------------
(* The stores as the first run finds them *)

\* parts.json lists each product once: no two items share an ASIN, and no
\* two items without ASIN share a URL.  The third item has variant pricing,
\* the fourth is sold on request, the fifth links to a Discord server and
\* the sixth has neither ASIN nor URL: shouldSkip skips the four of them.
Item(name, asin, url, price) == [name |-> name, asin |-> asin, url |-> url, price |-> price]

InitParts ==
    << Item("Widget", "X1", NoUrl, Usd(2000)),
       Item("Gadget", "", [host |-> "shop.example.com", path |-> "/gadget", tag |-> FALSE],
            Usd(2000)),
       Item("Kit", "", [host |-> "www.seeedstudio.com", path |-> "/kit", tag |-> FALSE],
            [text |-> "From $", cents |-> 1500]),
       Item("Antenna (custom)", "X2", NoUrl, [text |-> "Contact on Discord", cents |-> 0]),
       Item("Community", "", [host |-> "discord.gg", path |-> "/ncmesh", tag |-> FALSE],
            Usd(500)),
       Item("Loose part", "", NoUrl, Usd(300)) >>

Alert(productId, pct, active) ==
    [product_id |-> productId, threshold_pct |-> pct, active |-> active,
     last_notified |-> NoTime]

InitSubs ==
    << Alert("X1", DEFAULT_THRESHOLD, TRUE),
       Alert("X1", 15, TRUE),
       Alert("X1", DEFAULT_THRESHOLD, FALSE),
       Alert("Gadget", 10, TRUE) >>

\* an email address as the server looks at it: it is a non-empty string,
\* it includes '@', it includes '.'
Email(at, dot) == [given |-> TRUE, at |-> at, dot |-> dot]

NoEmail == [given |-> FALSE, at |-> FALSE, dot |-> FALSE]

TOKEN_BYTES == 16

\* crypto.randomBytes(16).toString('hex'): two hex digits per byte; n tells
\* the random values apart, and no value is drawn twice
Token(n) == [hexDigits |-> 2 * TOKEN_BYTES, n |-> n]

NoPrices == [exists |-> FALSE, products |-> << >>, lastRun |-> NoTime]

\* new Date() inside checkProduct for the entry at idx; past the loop, the
\* time the run completes
Now == (run - 1) * (Len(partsFile) + 1) + idx

\* nothing has been requested from the alerts routes
NoReq == [kind |-> "none"]

\* table image_cache is empty
NoImages == {}

\* nothing has been requested from the image proxy
NoImgReq == [kind |-> "none"]

\* no page has been given to the extractor
NoPage == [found |-> << >>, tokens |-> << >>]

InitStores ==
    /\ partsState \in {"ok", "missing", "corrupt"}
    /\ partsFile = IF partsState = "ok" THEN InitParts ELSE << >>
    /\ pricesFile = NoPrices
    /\ dbFile \in {"ok", "absent", "corrupt"}
    /\ apiKey \in BOOLEAN
    /\ subs = [id \in 1..Len(InitSubs) |->
                 InitSubs[id] @@ [id |-> id, email |-> Email(TRUE, TRUE),
                                  unsubscribe_token |-> Token(id), watching |-> ""]]
    /\ run = 0
    /\ pc = "idle"
    /\ partsData = << >>
    /\ products = << >>
    /\ idx = 0
    /\ changedProducts = << >>
    /\ db = FALSE
    /\ subscribers = << >>
    /\ k = 0
    /\ out = ""
    /\ synced = 0
    /\ partsWritten = FALSE
    /\ killedAt = ""
    /\ partsFile0 = partsFile
    /\ pricesFile0 = NoPrices
    /\ products0 = << >>
    /\ subs0 = subs
    /\ obs = << >>
    /\ prevDone = FALSE
    /\ sendLog = << >>
    /\ refProducts = << >>
    /\ refChanged = << >>
    /\ exitCode = NULL
    /\ capRejected = {}
    /\ req = NoReq
    /\ nreq = 0
    /\ imageCache = NoImages
    /\ clock = 0
    /\ imgReq = NoImgReq
    /\ events = << >>
    /\ html = NoPage
    /\ extracted = NULL

\* every fetch and extraction is free to give any result
Init == InitStores /\ script = << >>

\* the pages do not change between runs: every run gets the same result
\* for the same entry
InitSamePages ==
    /\ InitStores
    /\ script \in [1..Len(buildProductList(InitParts, NoPrices)) ->
                      {{r} : r \in FetchResults}]

-----------------------------------------------------------------------------
(* main *)

\* the products whose last reported change the cap refused, once
\* syncBackToParts has seen the changed list of this run: a change the cap
\* refuses puts the product in, a change it accepts takes the product out
CapAfter(rejected, prods, changed) ==
    LET seen == {HistoryKey(prods[changed[n]]) : n \in 1..Len(changed)}
        refused == {HistoryKey(prods[changed[n]]) :
                      n \in {m \in 1..Len(changed) : PctExceeds(prods[changed[m]].pct, MAX_CHANGE)}}
    IN  (rejected \ seen) \cup refused

FatalStart_EmptyCatalog ==
    /\ events' = << >>
    /\ pc \in {"idle", "done"}
    /\ partsState # "ok"
    /\ run < MaxRuns
    /\ run' = run + 1
    /\ pc' = "write_prices"
    /\ exitCode' = NULL
    /\ out' = ""
    /\ partsFile0' = partsFile
    /\ pricesFile0' = pricesFile
    /\ subs0' = subs
    /\ sendLog' = << >>
    /\ obs' = << >>
    /\ UNCHANGED << partsFile, pricesFile, dbFile, apiKey, subs, partsData, products, idx,
                    changedProducts, db, subscribers, k, synced, partsWritten, killedAt,
                    products0, script, prevDone, refProducts, refChanged, partsState,
                    capRejected, serviceVars, pageVars >>

\* main finds no parts.json, or JSON.parse throws on it: the process exits
\* with code 1 before anything is built, fetched or written
FatalStart ==
    /\ events' = << >>
    /\ pc \in {"idle", "fatal"}
    /\ partsState # "ok"
    /\ run < MaxRuns
    /\ run' = run + 1
    /\ pc' = "fatal"
    /\ exitCode' = 1
    /\ out' = ""
    /\ partsFile0' = partsFile
    /\ pricesFile0' = pricesFile
    /\ subs0' = subs
    /\ sendLog' = << >>
    /\ obs' = << >>
    /\ UNCHANGED << partsFile, pricesFile, dbFile, apiKey, subs, partsData, products, idx,
                    changedProducts, db, subscribers, k, synced, partsWritten, killedAt,
                    products0, script, prevDone, refProducts, refChanged, partsState,
                    capRejected, serviceVars, pageVars >>

DelayMs_Flat(product) == 1500

\* the rate limit after an entry: 3 s for Amazon, 1.5 s for the others
DelayMs(product) == IF product.source = "amazon" THEN 3000 ELSE 1500

\* main up to the loop: read both files, build the worklist, open the database
StartRun ==
    /\ events' = << >>
    /\ pc \in {"idle", "done", "killed"}
    /\ partsState = "ok"
    /\ run < MaxRuns
    /\ exitCode' = NULL
    /\ UNCHANGED << partsState, capRejected, serviceVars, pageVars >>
    /\ run' = run + 1
    /\ partsData' = partsFile
    /\ products' = buildProductList(partsFile, pricesFile)
    /\ db' = (dbFile = "ok")
    /\ changedProducts' = << >>
    /\ idx' = 1
    /\ pc' = IF products' = << >> THEN "write_prices" ELSE "check"
    /\ subscribers' = << >>
    /\ k' = 0
    /\ out' = ""
    /\ synced' = 0
    /\ partsWritten' = FALSE
    /\ killedAt' = ""
    /\ partsFile0' = partsFile
    /\ pricesFile0' = pricesFile
    /\ products0' = products'
    /\ subs0' = subs
    /\ prevDone' = (pc = "done")
    /\ obs' = [i \in 1..Len(products') |-> NoObs]
    /\ sendLog' = << >>
    /\ refProducts' = products'
    /\ refChanged' = << >>
    /\ UNCHANGED << partsFile, pricesFile, dbFile, apiKey, subs, script >>

LooksUp_WithoutKey(product, res) == IsDrop(res, product) /\ db

\* the notification step is entered and gets as far as the lookup
LooksUp(product, res) == IsDrop(res, product) /\ db /\ apiKey

\* one iteration of the loop up to its first suspension after the fetch:
\* checkProduct to its return, or to the first send of notifySubscribers
CheckProduct ==
    /\ pc = "check"
    /\ events' = Append(events, [ev |-> "fetch", i |-> idx, ms |-> 0])
    /\ \E res \in IF script = << >> THEN FetchResults ELSE script[idx] :
       \E threw \in IF LooksUp(products[idx], res) THEN BOOLEAN ELSE {FALSE} :
         LET product == products[idx]
             rows == IF LooksUp(product, res) /\ ~threw
                     THEN SelectSubscribers(subs, ProductId(product),
                                            PctChange(res.price, product.price))
                     ELSE << >>
         IN  /\ obs' = [obs EXCEPT ![idx] =
                          [kind |-> res.kind, price |-> res.price, old |-> product.price]]
             /\ refProducts' = [refProducts EXCEPT ![idx] =
                                  checkProduct(refProducts[idx], res, Now, FALSE)]
             /\ refChanged' = IF checkProductReturns(refProducts[idx], res, FALSE)
                              THEN Append(refChanged, idx) ELSE refChanged
             /\ IF rows # << >>
                THEN /\ products' = [products EXCEPT ![idx] =
                                       Updated(product, res.price, Now)]
                     /\ subscribers' = rows
                     /\ k' = 1
                     /\ pc' = "send"
                     /\ UNCHANGED changedProducts
                ELSE /\ products' = [products EXCEPT ![idx] =
                                       checkProduct(product, res, Now, threw)]
                     /\ changedProducts' =
                          IF checkProductReturns(product, res, threw)
                          THEN Append(changedProducts, idx) ELSE changedProducts
                     /\ pc' = "delay"
                     /\ UNCHANGED << subscribers, k >>
    /\ UNCHANGED << partsState, exitCode, capRejected, serviceVars, pageVars >>
    /\ UNCHANGED << partsFile, pricesFile, dbFile, apiKey, subs, run, partsData, idx,
                    db, out, synced, partsWritten, killedAt, partsFile0, pricesFile0,
                    products0, subs0, script, prevDone, sendLog >>

\* the send that settles now was started when the one before it settled,
\* the first one right after the lookup; these two say whether the row was
\* active in the table when the send to it was started
NextIsActive ==
    IF k < Len(subscribers) THEN subs[subscribers[k + 1].id].active ELSE TRUE

SentToActive == IF k = 1 THEN TRUE ELSE sendLog[Len(sendLog)].next

Send_StopsAtFailure ==
    /\ UNCHANGED events
    /\ pc = "send"
    /\ \E ok \in BOOLEAN :
         LET sub == subscribers[k]
         IN  /\ sendLog' = Append(sendLog, [i |-> idx, id |-> sub.id, ok |-> ok,
                                            active |-> SentToActive,
                                            next |-> NextIsActive])
             /\ subs' = IF ok THEN [subs EXCEPT ![sub.id].last_notified = Now] ELSE subs
             /\ IF k = Len(subscribers) \/ ~ok
                THEN /\ products' = [products EXCEPT ![idx] = Checked(products[idx], Now)]
                     /\ changedProducts' = Append(changedProducts, idx)
                     /\ subscribers' = << >>
                     /\ k' = 0
                     /\ pc' = "delay"
                ELSE /\ k' = k + 1
                     /\ UNCHANGED << products, changedProducts, subscribers, pc >>
    /\ UNCHANGED << partsState, exitCode, capRejected, serviceVars, pageVars >>
    /\ UNCHANGED << partsFile, pricesFile, dbFile, apiKey, run, partsData, idx, db, out,
                    synced, partsWritten, killedAt, partsFile0, pricesFile0, products0,
                    subs0, obs, script, prevDone, refProducts, refChanged >>

\* one iteration of the send loop of notifySubscribers; after the last one
\* notifySubscribers and checkProduct return.  The awaited send resolves
\* (ok) or rejects into the catch clause (~ok).
Send ==
    /\ UNCHANGED events
    /\ pc = "send"
    /\ \E ok \in BOOLEAN :
         LET sub == subscribers[k]
         IN  /\ sendLog' = Append(sendLog, [i |-> idx, id |-> sub.id, ok |-> ok,
                                            active |-> SentToActive,
                                            next |-> NextIsActive])
             /\ subs' = IF ok THEN [subs EXCEPT ![sub.id].last_notified = Now] ELSE subs
    /\ IF k = Len(subscribers)
       THEN /\ products' = [products EXCEPT ![idx] = Checked(products[idx], Now)]
            /\ changedProducts' = Append(changedProducts, idx)
            /\ subscribers' = << >>
            /\ k' = 0
            /\ pc' = "delay"
       ELSE /\ k' = k + 1
            /\ UNCHANGED << products, changedProducts, subscribers, pc >>
    /\ UNCHANGED << partsState, exitCode, capRejected, serviceVars, pageVars >>
    /\ UNCHANGED << partsFile, pricesFile, dbFile, apiKey, run, partsData, idx, db, out,
                    synced, partsWritten, killedAt, partsFile0, pricesFile0, products0,
                    subs0, obs, script, prevDone, refProducts, refChanged >>

Delay_WritesEachEntry ==
    /\ pc = "delay"
    /\ events' = Append(events, [ev |-> "delay", i |-> idx, ms |-> DelayMs(products[idx])])
    /\ idx' = idx + 1
    /\ pricesFile' = [exists |-> TRUE, products |-> products, lastRun |-> Now]
    /\ IF idx = Len(products)
       THEN pc' = "write_prices" /\ db' = FALSE
       ELSE pc' = "check" /\ UNCHANGED db
    /\ UNCHANGED << partsState, exitCode, capRejected, serviceVars, pageVars >>
    /\ UNCHANGED << partsFile, dbFile, apiKey, subs, run, partsData, products,
                    changedProducts, subscribers, k, out, synced, partsWritten, killedAt,
                    partsFile0, pricesFile0, products0, subs0, obs, script, prevDone,
                    sendLog, refProducts, refChanged >>

Delay_FailureIsFatal ==
    /\ pc = "delay"
    /\ events' = Append(events, [ev |-> "delay", i |-> idx, ms |-> DelayMs(products[idx])])
    /\ idx' = idx + 1
    /\ IF obs[idx].kind = "fail"
       THEN pc' = "fatal" /\ exitCode' = 1 /\ db' = FALSE
       ELSE /\ UNCHANGED exitCode
            /\ IF idx = Len(products)
               THEN pc' = "write_prices" /\ db' = FALSE
               ELSE pc' = "check" /\ UNCHANGED db
    /\ UNCHANGED << partsState, capRejected, serviceVars, pageVars >>
    /\ UNCHANGED << partsFile, pricesFile, dbFile, apiKey, subs, run, partsData, products,
                    changedProducts, subscribers, k, out, synced, partsWritten, killedAt,
                    partsFile0, pricesFile0, products0, subs0, obs, script, prevDone,
                    sendLog, refProducts, refChanged >>

\* the delay after an entry; past the last entry the database is closed
Delay ==
    /\ pc = "delay"
    /\ events' = Append(events, [ev |-> "delay", i |-> idx, ms |-> DelayMs(products[idx])])
    /\ idx' = idx + 1
    /\ IF idx = Len(products)
       THEN pc' = "write_prices" /\ db' = FALSE
       ELSE pc' = "check" /\ UNCHANGED db
    /\ UNCHANGED << partsState, exitCode, capRejected, serviceVars, pageVars >>
    /\ UNCHANGED << partsFile, pricesFile, dbFile, apiKey, subs, run, partsData, products,
                    changedProducts, subscribers, k, out, synced, partsWritten, killedAt,
                    partsFile0, pricesFile0, products0, subs0, obs, script, prevDone,
                    sendLog, refProducts, refChanged >>

WritePrices_Deferred ==
    /\ UNCHANGED events
    /\ pc = "write_prices"
    /\ pc' = "sync"
    /\ UNCHANGED << partsState, exitCode, capRejected, serviceVars, pageVars >>
    /\ UNCHANGED << partsFile, pricesFile, dbFile, apiKey, subs, run, partsData, products,
                    idx, changedProducts, db, subscribers, k, out, synced, partsWritten,
                    killedAt, partsFile0, pricesFile0, products0, subs0, obs, script,
                    prevDone, sendLog, refProducts, refChanged >>

WritePrices ==
    /\ UNCHANGED events
    /\ pc = "write_prices"
    /\ pricesFile' = [exists |-> TRUE, products |-> products, lastRun |-> Now]
    /\ pc' = "sync"
    /\ UNCHANGED << partsState, exitCode, capRejected, serviceVars, pageVars >>
    /\ UNCHANGED << partsFile, dbFile, apiKey, subs, run, partsData, products, idx,
                    changedProducts, db, subscribers, k, out, synced, partsWritten,
                    killedAt, partsFile0, pricesFile0, products0, subs0, obs, script,
                    prevDone, sendLog, refProducts, refChanged >>

SyncParts_OnlyWhenSynced ==
    /\ UNCHANGED events
    /\ pc = "sync"
    /\ LET r == syncBackToParts(partsData, products, changedProducts)
       IN  IF Len(changedProducts) > 0 /\ r.updated > 0
           THEN /\ partsData' = r.parts
                /\ synced' = r.updated
                /\ partsFile' = r.parts
                /\ partsWritten' = TRUE
                /\ out' = "PRICES_CHANGED"
           ELSE /\ out' = "No price changes detected"
                /\ UNCHANGED << partsData, synced, partsFile, partsWritten >>
    /\ pc' = "done"
    /\ exitCode' = 0
    /\ capRejected' = CapAfter(capRejected, products, changedProducts)
    /\ UNCHANGED << partsState, serviceVars, pageVars >>
    /\ UNCHANGED << pricesFile, dbFile, apiKey, subs, run, products, idx, changedProducts,
                    db, subscribers, k, killedAt, partsFile0, pricesFile0, products0,
                    subs0, obs, script, prevDone, sendLog, refProducts, refChanged >>

SyncParts ==
    /\ UNCHANGED events
    /\ pc = "sync"
    /\ IF Len(changedProducts) > 0
       THEN LET r == syncBackToParts(partsData, products, changedProducts)
            IN  /\ partsData' = r.parts
                /\ synced' = r.updated
                /\ partsFile' = r.parts
                /\ partsWritten' = TRUE
                /\ out' = "PRICES_CHANGED"
       ELSE /\ out' = "No price changes detected"
            /\ UNCHANGED << partsData, synced, partsFile, partsWritten >>
    /\ pc' = "done"
    /\ exitCode' = 0
    /\ capRejected' = CapAfter(capRejected, products, changedProducts)
    /\ UNCHANGED << partsState, serviceVars, pageVars >>
    /\ UNCHANGED << pricesFile, dbFile, apiKey, subs, run, products, idx, changedProducts,
                    db, subscribers, k, killedAt, partsFile0, pricesFile0, products0,
                    subs0, obs, script, prevDone, sendLog, refProducts, refChanged >>

\* the process is terminated from outside
Terminate ==
    /\ UNCHANGED events
    /\ pc \in {"check", "send", "delay", "write_prices", "sync"}
    /\ killedAt' = pc
    /\ pc' = "killed"
    /\ UNCHANGED << partsState, exitCode, capRejected, serviceVars, pageVars >>
    /\ UNCHANGED << partsFile, pricesFile, dbFile, apiKey, subs, run, partsData, products,
                    idx, changedProducts, db, subscribers, k, out, synced, partsWritten,
                    partsFile0, pricesFile0, products0, subs0, obs, script, prevDone,
                    sendLog, refProducts, refChanged >>

Next ==
    \/ StartRun \/ FatalStart \/ CheckProduct \/ Send \/ Delay \/ WritePrices
    \/ SyncParts \/ Terminate

Spec == Init /\ [][Next]_vars

SpecSamePages == InitSamePages /\ [][Next]_vars

\* a step of a run that has passed startup
RunStep == CheckProduct \/ Send \/ Delay \/ WritePrices \/ SyncParts

NextUnkilled == StartRun \/ FatalStart \/ RunStep

\* the process is left alone, and what it awaits settles: the fetch is
\* aborted after 8 seconds, the delay timers fire, a send resolves or
\* rejects; the file and database calls are synchronous
SpecLive == Init /\ [][NextUnkilled]_vars /\ WF_vars(RunStep)

\* every page shows a price far above the catalog's, or one between the two
SpikePages ==
    [i \in 1..Len(buildProductList(InitParts, NoPrices)) |->
       {[kind |-> "page", price |-> 95000], [kind |-> "page", price |-> 40000]}]

InitDiverged ==
    /\ InitStores
    /\ partsState = "ok"
    /\ dbFile = "ok"
    /\ apiKey
    /\ script = SpikePages

NextDiverged == StartRun \/ RunStep

\* runs, left alone, over pages whose prices are far from the catalog's
SpecDiverged == InitDiverged /\ [][NextDiverged]_vars

-----------------------------------------------------------------------------
(* syncBackToParts taken by itself, on catalogs whose items share keys *)

SyncPool ==
    { Item("Widget", "X1", NoUrl, Usd(2000)),
      Item("Widget kit", "X1", [host |-> "shop.example.com", path |-> "/gadget", tag |-> FALSE],
           Usd(2000)),
      Item("Gadget", "", [host |-> "shop.example.com", path |-> "/gadget", tag |-> FALSE],
           Usd(1500)),
      Item("Cable", "X3", NoUrl, Usd(2000)) }

SyncLen == 3

\* the worklist of a first run over the catalog, every entry checked with
\* the result given for it, notifications being off
CheckedList(parts, results) ==
    LET built == buildProductList(parts, NoPrices)
    IN  [i \in 1..Len(built) |-> checkProduct(built[i], results[i], i, FALSE)]

ChangedList(parts, results) ==
    LET built == buildProductList(parts, NoPrices)
    IN  SelectSeq([i \in 1..Len(built) |-> i],
                  LAMBDA i : checkProductReturns(built[i], results[i], FALSE))

\* a first run, without database and API key, that has checked every entry
\* and written prices.json, and is about to reconcile
InitSync ==
    \E parts \in [1..SyncLen -> SyncPool] : \E results \in [1..SyncLen -> FetchResults] :
      /\ partsState = "ok"
      /\ partsFile = parts
      /\ partsData = parts
      /\ partsFile0 = parts
      /\ products0 = buildProductList(parts, NoPrices)
      /\ products = CheckedList(parts, results)
      /\ refProducts = products
      /\ changedProducts = ChangedList(parts, results)
      /\ refChanged = changedProducts
      /\ obs = [i \in 1..SyncLen |->
                  [kind |-> results[i].kind, price |-> results[i].price,
                   old |-> products0[i].price]]
      /\ events = [n \in 1..(2 * SyncLen) |->
                     IF n % 2 = 1 THEN [ev |-> "fetch", i |-> (n + 1) \div 2, ms |-> 0]
                     ELSE [ev |-> "delay", i |-> n \div 2, ms |-> DelayMs(products0[n \div 2])]]
      /\ pricesFile0 = NoPrices
      /\ pricesFile = [exists |-> TRUE, products |-> products, lastRun |-> SyncLen + 1]
      /\ dbFile = "absent"
      /\ apiKey = FALSE
      /\ subs = [id \in 1..Len(InitSubs) |->
                   InitSubs[id] @@ [id |-> id, email |-> Email(TRUE, TRUE),
                                    unsubscribe_token |-> Token(id), watching |-> ""]]
      /\ subs0 = subs
      /\ run = 1
      /\ pc = "sync"
      /\ idx = SyncLen + 1
      /\ db = FALSE
      /\ subscribers = << >>
      /\ k = 0
      /\ out = ""
      /\ synced = 0
      /\ partsWritten = FALSE
      /\ killedAt = ""
      /\ prevDone = FALSE
      /\ sendLog = << >>
      /\ script = << >>
      /\ exitCode = NULL
      /\ capRejected = {}
      /\ req = NoReq
      /\ nreq = 0
      /\ imageCache = NoImages
      /\ clock = 0
      /\ imgReq = NoImgReq
      /\ html = NoPage
      /\ extracted = NULL

SpecSync == InitSync /\ [][SyncParts]_vars

-----------------------------------------------------------------------------
(* The alerts routes of the web server and the watch-price popover *)

\* what the batch job owns
batchVars == << partsFile, pricesFile, dbFile, apiKey, run, pc, partsData, products, idx,
                changedProducts, db, subscribers, k, out, synced, partsWritten, killedAt,
                partsFile0, pricesFile0, products0, subs0, obs, script, prevDone, sendLog,
                refProducts, refChanged, partsState, exitCode, capRejected, events >>

\* buildParts: the id of a catalog item is its name in lower case, every
\* run of other characters replaced by '-', cut to 60 characters
partId(name) ==
    CASE name = "Widget" -> "widget"
      [] name = "Gadget" -> "gadget"
      [] name = "Kit" -> "kit"
      [] name = "Antenna (custom)" -> "antenna-custom"
      [] name = "Community" -> "community"
      [] name = "Loose part" -> "loose-part"

postAlert_NoEmailCheck(table, body) ==
    IF body.product_id = "" \/ ~body.email.given
    THEN [status |-> 400, table |-> table, id |-> NULL, unsubscribe_token |-> Token(0)]
    ELSE LET id == Len(table) + 1
             row == [product_id |-> body.product_id,
                     email |-> body.email,
                     threshold_pct |-> IF body.threshold_pct # NULL THEN body.threshold_pct
                                       ELSE DEFAULT_THRESHOLD,
                     active |-> TRUE,
                     unsubscribe_token |-> Token(id),
                     last_notified |-> NoTime,
                     id |-> id,
                     watching |-> ""]
         IN  [status |-> 201, table |-> Append(table, row), id |-> id,
              unsubscribe_token |-> Token(id)]

\* POST /api/alerts: the response and the table after it
postAlert(table, body) ==
    IF body.product_id = "" \/ ~body.email.given \/ ~body.email.at \/ ~body.email.dot
    THEN [status |-> 400, table |-> table, id |-> NULL, unsubscribe_token |-> Token(0)]
    ELSE LET id == Len(table) + 1
             row == [product_id |-> body.product_id,
                     email |-> body.email,
                     threshold_pct |-> IF body.threshold_pct # NULL THEN body.threshold_pct
                                       ELSE DEFAULT_THRESHOLD,
                     active |-> TRUE,
                     unsubscribe_token |-> Token(id),
                     last_notified |-> NoTime,
                     id |-> id,
                     watching |-> ""]
         IN  [status |-> 201, table |-> Append(table, row), id |-> id,
              unsubscribe_token |-> Token(id)]

unsubscribe_AnyRow(table, token) ==
    LET hit == {id \in DOMAIN table : table[id].unsubscribe_token = token}
    IN  [status |-> IF hit = {} THEN 404 ELSE 200,
         table |-> [id \in DOMAIN table |->
                      IF id \in hit THEN [table[id] EXCEPT !.active = ~table[id].active]
                      ELSE table[id]]]

\* GET /api/alerts/unsubscribe/:token: the response and the table after it
unsubscribe(table, token) ==
    LET hit == {id \in DOMAIN table :
                  table[id].unsubscribe_token = token /\ table[id].active}
    IN  [status |-> IF hit = {} THEN 404 ELSE 200,
         table |-> [id \in DOMAIN table |->
                      IF id \in hit THEN [table[id] EXCEPT !.active = FALSE]
                      ELSE table[id]]]

\* request bodies sent to POST /api/alerts by any client
Bodies ==
    [product_id : {"X1"},
     email : {NoEmail, Email(TRUE, FALSE), Email(FALSE, TRUE), Email(TRUE, TRUE)},
     threshold_pct : {NULL, 0}]
      \cup {[product_id |-> "", email |-> Email(TRUE, TRUE), threshold_pct |-> 10]}

\* a client posts to /api/alerts
PostAlerts ==
    /\ nreq < MaxRequests
    /\ \E body \in Bodies :
         LET r == postAlert(subs, body)
         IN  /\ subs' = r.table
             /\ req' = [kind |-> "post", body |-> body, token |-> r.unsubscribe_token,
                        id |-> r.id, status |-> r.status, before |-> subs,
                        after |-> r.table]
    /\ nreq' = nreq + 1
    /\ UNCHANGED << batchVars, pageVars, imageCache, clock, imgReq >>

\* what the popover makes of its threshold field: parseInt, and 5 when that
\* gives NaN or less than 1
PopoverThreshold(typed) == IF typed = NULL \/ typed < 1 THEN DEFAULT_THRESHOLD ELSE typed

\* a visitor opens the bell on the card of a product the batch job tracks,
\* types an email address and a threshold and clicks Subscribe: the popover
\* posts the card's data-id.  The row remembers, as history, the item whose
\* card it was.
WatchPrice ==
    /\ nreq < MaxRequests
    /\ \E j \in {n \in 1..Len(partsFile) : Eligible(partsFile[n])} :
       \E email \in {Email(TRUE, TRUE)} : \E typed \in {NULL, 0, 10} :
         LET body == [product_id |-> partId(partsFile[j].name), email |-> email,
                      threshold_pct |-> PopoverThreshold(typed)]
             r == postAlert(subs, body)
             after == IF r.status = 201
                      THEN [r.table EXCEPT ![r.id].watching = partsFile[j].name]
                      ELSE r.table
         IN  /\ subs' = after
             /\ req' = [kind |-> "post", body |-> body, token |-> r.unsubscribe_token,
                        id |-> r.id, status |-> r.status, before |-> subs,
                        after |-> after]
    /\ nreq' = nreq + 1
    /\ UNCHANGED << batchVars, pageVars, imageCache, clock, imgReq >>

\* a client follows an unsubscribe link, with the token of a row or with a
\* token no row has
Unsubscribe ==
    /\ nreq < MaxRequests
    /\ \E n \in 0..Len(subs) :
         LET r == unsubscribe(subs, Token(n))
         IN  /\ subs' = r.table
             /\ req' = [kind |-> "unsubscribe", body |-> << >>, token |-> Token(n),
                        id |-> NULL, status |-> r.status, before |-> subs,
                        after |-> r.table]
    /\ nreq' = nreq + 1
    /\ UNCHANGED << batchVars, pageVars, imageCache, clock, imgReq >>

\* the page both products show: $17.996, a drop of a little more than 10%
DropPages == [i \in 1..Len(buildProductList(InitParts, NoPrices)) |->
                {[kind |-> "page", price |-> 17996]}]

\* the server has created the database; the batch job runs beside it
InitService ==
    /\ InitStores
    /\ partsState = "ok"
    /\ dbFile = "ok"
    /\ apiKey
    /\ script = DropPages

NextService ==
    \/ PostAlerts \/ WatchPrice \/ Unsubscribe
    \/ StartRun \/ CheckProduct \/ Send \/ Delay \/ WritePrices \/ SyncParts

SpecService == InitService /\ [][NextService]_vars

\* the web server alone
NextAlerts == PostAlerts \/ WatchPrice \/ Unsubscribe

SpecAlerts == InitService /\ [][NextAlerts]_vars

-----------------------------------------------------------------------------
(* The image proxy of the web server *)

DAY == 24

PLACEHOLDER == "/img/placeholder.svg"

\* the :asin parameters requested: the text, the number of its characters
\* and whether all of them are letters or digits
Asins ==
    { [text |-> "B000000001", chars |-> 10, alnum |-> TRUE],
      [text |-> "B000000002", chars |-> 10, alnum |-> TRUE],
      [text |-> "B00SHORT", chars |-> 8, alnum |-> TRUE],
      [text |-> "B00000000123", chars |-> 12, alnum |-> TRUE],
      [text |-> "B00-000001", chars |-> 10, alnum |-> FALSE] }

\* /^[A-Z0-9]{10}$/i
ValidAsin(asin) == asin.chars = 10 /\ asin.alnum

\* what the fetch of the Amazon page and the image selectors give: the
\* fetch throws, no element or no attribute is found, or an image URL
Upstream ==
    { [kind |-> "fail", url |-> ""], [kind |-> "none", url |-> ""],
      [kind |-> "image", url |-> "https://m.media-amazon.com/a.jpg"],
      [kind |-> "image", url |-> "https://m.media-amazon.com/b.jpg"] }

Cached_NoExpiry(cache, asin, now) == {row \in cache : row.asin = asin.text}

\* SELECT image_url FROM image_cache WHERE asin = ? AND
\* cached_at > datetime('now', '-1 day')
Cached(cache, asin, now) ==
    {row \in cache : row.asin = asin.text /\ row.cached_at > now - DAY}

\* INSERT OR REPLACE INTO image_cache
Replace(cache, row) == {r \in cache : r.asin # row.asin} \cup {row}

\* GET /api/images/:asin: the redirect, and what happened to the cache
getImage(cache, asin, up, now) ==
    IF ~ValidAsin(asin)
    THEN [location |-> PLACEHOLDER, cache |-> cache, read |-> FALSE, fetched |-> FALSE]
    ELSE IF Cached(cache, asin, now) # {}
    THEN [location |-> (CHOOSE row \in Cached(cache, asin, now) : TRUE).image_url,
          cache |-> cache, read |-> TRUE, fetched |-> FALSE]
    ELSE IF up.kind = "image"
    THEN [location |-> up.url,
          cache |-> Replace(cache, [asin |-> asin.text, image_url |-> up.url,
                                    cached_at |-> now]),
          read |-> TRUE, fetched |-> TRUE]
    ELSE [location |-> PLACEHOLDER, cache |-> cache, read |-> TRUE, fetched |-> TRUE]

GetImage ==
    /\ \E asin \in Asins : \E up \in Upstream :
         LET r == getImage(imageCache, asin, up, clock)
         IN  /\ imageCache' = r.cache
             /\ imgReq' = [kind |-> "get", asin |-> asin, at |-> clock,
                           upstream |-> IF r.fetched THEN up
                                        ELSE [kind |-> "unused", url |-> ""],
                           location |-> r.location, read |-> r.read,
                           before |-> imageCache]
    /\ UNCHANGED << batchVars, pageVars, subs, req, nreq, clock >>

\* half a day passes
Tick ==
    /\ clock + DAY \div 2 <= MaxClock
    /\ clock' = clock + DAY \div 2
    /\ UNCHANGED << batchVars, pageVars, subs, req, nreq, imageCache, imgReq >>

NextImages == GetImage \/ Tick

SpecImages == InitService /\ [][NextImages]_vars

-----------------------------------------------------------------------------
(* The generic extractor, taken by itself *)

\* parseFloat of text that is not a number
NaN == -2

\* the number of selectors the generic extractor tries
SELECTORS == 10

\* the digits of a price as the page writes them: the groups that commas
\* separate before the decimal point, and the two decimals after it;
\* no group stands for a text of commas alone
NumText(groups, cents) == [groups |-> groups, cents |-> cents]

\* text.match(...) is null: the text holds no price
NoMatch == [groups |-> << >>, cents |-> NULL]

\* parseFloat(text.replace(',', '')): the first comma alone is removed, and
\* parseFloat reads up to the next one
ParseNum(t) ==
    IF t.groups = << >> THEN NaN
    ELSE IF Len(t.groups) = 1 THEN t.groups[1] * 1000 + t.cents * 10
    ELSE IF Len(t.groups) = 2
         THEN (t.groups[1] * 1000 + t.groups[2]) * 1000 + t.cents * 10
         ELSE (t.groups[1] * 1000 + t.groups[2]) * 1000

InRange_Inclusive(p) == p >= 5000 /\ p <= 500000

\* p > 5 && p < 500
InRange(p) == p > 5000 /\ p < 500000

RECURSIVE SeqMin(_)
SeqMin(s) == IF Len(s) = 1 THEN Head(s)
             ELSE IF Head(s) < SeqMin(Tail(s)) THEN Head(s) ELSE SeqMin(Tail(s))

\* page.found[s] is the price text the pattern finds in the first element
\* of selector s, NoMatch when it finds none; page.tokens are the texts the
\* fallback pattern finds in the markup, in order
extractGenericPrice(page) ==
    LET hits   == {s \in 1..Len(page.found) : page.found[s] # NoMatch}
        first  == CHOOSE s \in hits : \A t \in hits : s <= t
        prices == SelectSeq([n \in 1..Len(page.tokens) |-> ParseNum(page.tokens[n])],
                            InRange)
    IN  IF hits # {} THEN ParseNum(page.found[first])
        ELSE IF Len(prices) > 0 THEN SeqMin(prices)
        ELSE NULL

SelectorTexts ==
    { NumText(<< >>, 0), NumText(<< 0 >>, 0), NumText(<< 12 >>, 99),
      NumText(<< 1, 299 >>, 0) }

TokenTexts ==
    { NumText(<< >>, 0), NumText(<< 5 >>, 0), NumText(<< 5 >>, 1), NumText(<< 12 >>, 99),
      NumText(<< 499 >>, 99), NumText(<< 500 >>, 0), NumText(<< 1, 299 >>, 0),
      NumText(<< 1, 0, 0 >>, 0) }

MaxTokens == 2

\* pages on which at most two selectors find a price text
Pages ==
    { [found |-> [s \in 1..SELECTORS |->
                    IF s = a THEN x ELSE IF s = b THEN y ELSE NoMatch],
       tokens |-> t] :
        a \in 1..SELECTORS, b \in 1..SELECTORS,
        x \in SelectorTexts \cup {NoMatch}, y \in SelectorTexts \cup {NoMatch},
        t \in UNION {[1..n -> TokenTexts] : n \in 0..MaxTokens} }

\* a page is fetched and given to the extractor
Extract ==
    /\ html = NoPage
    /\ \E page \in Pages :
         /\ html' = page
         /\ extracted' = extractGenericPrice(page)
    /\ UNCHANGED << batchVars, serviceVars, subs >>

SpecGeneric == InitService /\ [][Extract]_vars

-----------------------------------------------------------------------------
(* Vocabulary of the properties *)

Range(seq) == {seq[j] : j \in 1..Len(seq)}

Entries == 1..Len(products)

\* the time at which the entry at i is checked in the current run
CheckTime(i) == (run - 1) * (Len(partsFile) + 1) + i

\* the entry at i has been fetched in this run
Fetched(i) == obs[i].kind # "none"

ObsPct(i) == PctChange(obs[i].price, obs[i].old)

\* the entry's page gave a price V
GavePrice(i) == obs[i].kind = "page" /\ obs[i].price # NULL /\ obs[i].price > 0

\* the catalog items that are the product of the entry at i
CatalogItemsOf(i) ==
    {j \in 1..Len(partsFile0) : ItemKey(partsFile0[j]) = HistoryKey(products[i])}

\* the send attempts of this run for the entry at i to the subscription id
AttemptsTo(i, id) == {n \in 1..Len(sendLog) : sendLog[n].i = i /\ sendLog[n].id = id}

AttemptsFor(i) == {n \in 1..Len(sendLog) : sendLog[n].i = i}

-----------------------------------------------------------------------------
(* C1: in a completed run, a product whose extracted price V differs from  *)
(* the price it was compared against by more than 80% keeps its prior      *)
(* catalog price, while prices.json written by the same run records V.     *)

-----------------------------------------------------------------------------
(* C2 as stated: a completed run prints PRICES_CHANGED and rewrites        *)
(* parts.json if and only if at least one catalog price was reconciled.    *)

C2_SentinelIffReconciled ==
    pc = "done" =>
      /\ (out = "PRICES_CHANGED") <=> (synced > 0)
      /\ partsWritten <=> (synced > 0)

(* C2 as amended: a completed run prints PRICES_CHANGED and rewrites       *)
(* parts.json if and only if at least one entry was reported as changed    *)
(* (a change of more than 5%), whether or not the cap accepted it; every   *)
(* other run prints the completion summary and leaves parts.json alone.    *)

C2_SentinelIffChanged ==
    pc = "done" =>
      /\ (out = "PRICES_CHANGED") <=> (Len(changedProducts) > 0)
      /\ partsWritten <=> (Len(changedProducts) > 0)
      /\ out \in {"PRICES_CHANGED", "No price changes detected"}
      /\ \A i \in Range(changedProducts) :
            GavePrice(i) /\ ObsPct(i).diff * 100 > 5 * ObsPct(i).old
      /\ synced > 0 => out = "PRICES_CHANGED"
      /\ ~partsWritten => partsFile = partsFile0

\* a completed run whose every change was refused by the cap
C2_Witness ==
    /\ pc = "done"
    /\ Len(changedProducts) > 0
    /\ synced = 0
    /\ out = "PRICES_CHANGED"
    /\ partsWritten

-----------------------------------------------------------------------------
(* C3 as stated: a run terminated before it completes leaves parts.json    *)
(* and prices.json with their contents of before the run.                  *)

C3_KilledLeavesBothFiles ==
    pc = "killed" => (partsFile = partsFile0 /\ pricesFile = pricesFile0)

(* C3 as amended: a run terminated before its loop over the worklist has   *)
(* finished and prices.json is written leaves both files with their        *)
(* contents of before the run (nothing is written per entry); the files    *)
(* are written one after the other, prices.json first, so that parts.json  *)
(* is written only when prices.json already holds the run's worklist.      *)

InLoop(at) == at \in {"check", "send", "delay", "write_prices"}

C3_NoWriteBeforeLoopEnds ==
    /\ (InLoop(pc) \/ (pc = "killed" /\ InLoop(killedAt))) =>
          (partsFile = partsFile0 /\ pricesFile = pricesFile0)
    /\ (pc = "killed" /\ killedAt = "sync") =>
          (partsFile = partsFile0 /\ pricesFile.products = products)
    /\ partsWritten => pricesFile.products = products

\* a run terminated in its loop after it changed an entry in memory
C3_Witness ==
    /\ pc = "killed"
    /\ killedAt = "delay"
    /\ idx = 2
    /\ Len(changedProducts) = 2


-----------------------------------------------------------------------------
(* C4: for every price drop of more than 5% whose notification step ran to *)
(* its end with the credential and the store available, each subscription  *)
(* that is active, keyed to the product and has threshold_pct <= the drop  *)
(* in percentage points got exactly one send attempt, and every other      *)
(* subscription got none.                                                  *)

\* the check of the entry at i, its notification step included, is over
CheckOver(i) ==
    /\ Fetched(i)
    /\ ~(i = idx /\ (pc = "send" \/ (pc = "killed" /\ killedAt = "send")))

\* the entry at i dropped by more than 5% and its notification step ran
DropNotified(i) ==
    /\ GavePrice(i)
    /\ obs[i].price < obs[i].old
    /\ (obs[i].old - obs[i].price) * 100 > 5 * obs[i].old
    /\ dbFile = "ok" /\ apiKey
    /\ i \in Range(changedProducts)

Qualifies(id, i) ==
    /\ subs0[id].active
    /\ subs0[id].product_id = (IF products[i].asin # "" THEN products[i].asin
                               ELSE products[i].name)
    /\ subs0[id].threshold_pct * obs[i].old <= (obs[i].old - obs[i].price) * 100

C4_OneAttemptPerMatch ==
    \A i \in Entries : \A id \in DOMAIN subs :
      /\ Cardinality(AttemptsTo(i, id)) <= 1
      /\ AttemptsTo(i, id) # {} => (Fetched(i) /\ Qualifies(id, i))
      /\ (CheckOver(i) /\ DropNotified(i) /\ Qualifies(id, i)) =>
            Cardinality(AttemptsTo(i, id)) = 1

\* a finished drop for which one subscription was tried, while one with a
\* higher threshold and an inactive one of the same product were not
C4_Witness ==
    \E i \in Entries : \E a, b, c \in DOMAIN subs :
      /\ CheckOver(i) /\ DropNotified(i)
      /\ Cardinality(AttemptsTo(i, a)) = 1
      /\ subs0[b].product_id = subs0[a].product_id /\ subs0[b].active
      /\ subs0[b].threshold_pct > subs0[a].threshold_pct /\ AttemptsTo(i, b) = {}
      /\ subs0[c].product_id = subs0[a].product_id /\ ~subs0[c].active
      /\ AttemptsTo(i, c) = {}

-----------------------------------------------------------------------------
(* C5: when every entry's page gives the same result in two successive     *)
(* completed runs, the second run reconciles nothing and leaves parts.json *)
(* as the first run left it.  Checked under SpecSamePages.                 *)

C5_SecondRunChangesNothing ==
    (pc = "done" /\ prevDone) => (synced = 0 /\ partsFile = partsFile0)

\* the second of two completed runs, the first of which had one change
\* accepted and one refused by the cap
C5_Witness ==
    /\ pc = "done" /\ prevDone /\ run = 2
    /\ partsFile # InitParts
    /\ \E i \in Entries : pricesFile.products[i].price = 95000
    /\ \E i \in Entries : pricesFile.products[i].price = 17996

-----------------------------------------------------------------------------
(* C6: an entry whose extracted price V has |V - old| / old <= 0.05 keeps  *)
(* its price, priceDisplay and lastChanged, gets lastChecked set to the    *)
(* time of the check, is not reported as changed and causes no send.       *)

C6_WithinThreshold ==
    \A i \in Entries :
      (GavePrice(i) /\ ObsPct(i).diff * 100 <= 5 * ObsPct(i).old) =>
        /\ products[i].price = products0[i].price
        /\ products[i].priceDisplay = products0[i].priceDisplay
        /\ products[i].lastChanged = products0[i].lastChanged
        /\ products[i].lastChecked = CheckTime(i)
        /\ i \notin Range(changedProducts)
        /\ AttemptsFor(i) = {}

\* an entry whose page gave a price exactly 5% above the old one
C6_Witness ==
    \E i \in Entries :
      /\ GavePrice(i)
      /\ obs[i].price # obs[i].old
      /\ ObsPct(i).diff * 100 = 5 * ObsPct(i).old

-----------------------------------------------------------------------------
(* C7: an entry whose page was fetched but gave no price keeps its price,  *)
(* priceDisplay and lastChanged and gets lastChecked set to the time of    *)
(* the check; when the run completes, prices.json holds for it the price   *)
(* and priceDisplay it held before the run, and its catalog item is as     *)
(* before the run.                                                         *)

NoPriceFound(i) == obs[i].kind = "page" /\ ~(obs[i].price # NULL /\ obs[i].price > 0)

-----------------------------------------------------------------------------
(* C8: an entry whose fetch failed is left as it was, is not reported as   *)
(* changed and causes no send, and the loop goes on: main is at the delay  *)
(* that follows the entry, and a completed run has fetched every entry.    *)

C8_FetchFailureKeepsEntry ==
    /\ \A i \in Entries :
         obs[i].kind = "fail" =>
           /\ products[i] = products0[i]
           /\ i \notin Range(changedProducts)
           /\ AttemptsFor(i) = {}
           /\ (i = idx /\ pc # "killed") => pc = "delay"
    /\ pc \in {"write_prices", "sync", "done"} => \A i \in Entries : Fetched(i)

\* a completed run whose first fetch failed and whose second entry changed
C8_Witness ==
    /\ pc = "done"
    /\ Len(products) > 1
    /\ obs[1].kind = "fail"
    /\ 2 \in Range(changedProducts)

-----------------------------------------------------------------------------
(* C9: with no credential, or with the database absent or not opened, a    *)
(* run makes no send attempt and modifies no subscription, and its         *)
(* worklist, its list of changed entries and the two files it writes are   *)
(* those of a run whose notification steps all return normally.            *)

NotificationsOff == dbFile # "ok" \/ ~apiKey

C9_DisabledNotifications ==
    NotificationsOff =>
      /\ sendLog = << >>
      /\ subs = subs0
      /\ products = refProducts
      /\ changedProducts = refChanged
      /\ pc \in {"sync", "done"} => pricesFile.products = refProducts
      /\ pc = "done" =>
           partsFile = IF Len(refChanged) > 0
                       THEN syncBackToParts(partsFile0, refProducts, refChanged).parts
                       ELSE partsFile0

\* a completed run without notifications in which a drop that a
\* subscription is waiting for was reconciled
C9_Witness ==
    /\ NotificationsOff
    /\ pc = "done"
    /\ synced > 0
    /\ \E i \in Entries : \E id \in DOMAIN subs :
         /\ GavePrice(i) /\ obs[i].price < obs[i].old
         /\ i \in Range(changedProducts)
         /\ Qualifies(id, i)

-----------------------------------------------------------------------------
(* C10: in one fan-out the rows the lookup returned are tried one after    *)
(* the other whatever the outcome of the earlier sends, and a              *)
(* subscription's last_notified is updated if and only if the send to it   *)
(* succeeded.                                                              *)

-----------------------------------------------------------------------------
(* C11: an entry whose extracted price V is above the price it was         *)
(* compared against by more than 5% gets price V, the display string of V  *)
(* and lastChanged set to the time of the check, is reported as changed,   *)
(* and causes no send and no update of a subscription.                     *)

IsRise(i) ==
    GavePrice(i) /\ obs[i].price > obs[i].old /\ ObsPct(i).diff * 100 > 5 * ObsPct(i).old

C11_RiseIsSilent ==
    \A i \in Entries :
      IsRise(i) =>
        /\ products[i].price = obs[i].price
        /\ products[i].priceDisplay = [text |-> "$", cents |-> (obs[i].price + 5) \div 10]
        /\ products[i].lastChanged = CheckTime(i)
        /\ i \in Range(changedProducts)
        /\ AttemptsFor(i) = {}
        /\ \A id \in DOMAIN subs : subs[id].last_notified # CheckTime(i)

\* a rise of more than 5% of a product that has an active subscription,
\* checked with the database open and the API key set
C11_Witness ==
    \E i \in Entries :
      /\ IsRise(i)
      /\ db /\ apiKey
      /\ \E id \in DOMAIN subs :
            subs[id].active /\ subs[id].product_id = ProductId(products[i])

-----------------------------------------------------------------------------
(* C12: a run that has read and parsed the catalog, if the process is left *)
(* alone, reaches its end whatever the fetches, the extractions and the    *)
(* sends gave: it never exits with an error, and at its end the exit code  *)
(* is 0, every worklist entry has been fetched, and prices.json holds the  *)
(* whole worklist and the time of completion.                              *)

PastStartup == pc \in {"check", "send", "delay", "write_prices", "sync"}

C12_CompletedRun ==
    /\ exitCode = 0
    /\ \A i \in Entries : Fetched(i)
    /\ pricesFile.exists
    /\ pricesFile.products = products
    /\ Len(pricesFile.products) = Len(products0)
    /\ pricesFile.lastRun = (run - 1) * (Len(partsFile) + 1) + Len(products) + 1

C12_RunCompletes ==
    /\ [](partsState = "ok" => pc # "fatal" /\ exitCode \in {NULL, 0})
    /\ [](pc = "done" => C12_CompletedRun)
    /\ (PastStartup ~> pc = "done")

\* a second run that completed although one fetch failed and a send failed
C12_Witness ==
    /\ pc = "done"
    /\ exitCode = 0
    /\ \E i \in Entries : obs[i].kind = "fail"
    /\ run = 2
    /\ \E n \in 1..Len(sendLog) : ~sendLog[n].ok

-----------------------------------------------------------------------------
(* C13: when parts.json is missing or does not parse, the run ends at      *)
(* startup with exit code 1: parts.json and prices.json are as the run     *)
(* found them, no page was fetched, no send was attempted and no           *)
(* subscription was touched.                                               *)

C13_FatalStartWritesNothing ==
    /\ partsState # "ok" => pc \in {"idle", "fatal"}
    /\ pc = "fatal" =>
         /\ exitCode # NULL /\ exitCode # 0
         /\ partsFile = partsFile0
         /\ pricesFile = pricesFile0
         /\ ~pricesFile.exists
         /\ obs = << >>
         /\ sendLog = << >>
         /\ subs = subs0
         /\ out = ""

\* a second run that found a parts.json that does not parse
C13_Witness == pc = "fatal" /\ partsState = "corrupt" /\ run = 2

\* a run that found no parts.json
C13_WitnessMissing == pc = "fatal" /\ partsState = "missing"

-----------------------------------------------------------------------------
(* C14 as stated: a subscription made through the bell on the card of a    *)
(* product, active since before the run, is sent to when the run finds     *)
(* that the product dropped by at least the subscription's threshold and   *)
(* the notification step ran.                                              *)

WatchedDrop(id, i) ==
    /\ id \in DOMAIN subs0
    /\ subs0[id].active /\ subs[id].active
    /\ subs0[id].watching = products[i].name
    /\ subs0[id].threshold_pct * obs[i].old <= (obs[i].old - obs[i].price) * 100

C14_SiteSubscriptionSelected ==
    \A i \in Entries : \A id \in DOMAIN subs :
      (CheckOver(i) /\ DropNotified(i) /\ WatchedDrop(id, i)) => AttemptsTo(i, id) # {}

-----------------------------------------------------------------------------
(* C15 as stated: every row of price_alerts has a threshold above zero.    *)

C15_ThresholdPositive == \A id \in DOMAIN subs : subs[id].threshold_pct > 0

-----------------------------------------------------------------------------
(* C16: an unsubscribe request whose token is that of an active row is     *)
(* answered 200 and sets that row, and nothing else, inactive; any other   *)
(* token is answered 404 and changes nothing.  No request and no run       *)
(* removes a row or makes an inactive row active.                          *)

\* every row of the table `old` is in `new`, with its identity, and is
\* inactive there if it was inactive
RowsKept(old, new) ==
    \A id \in DOMAIN old :
      /\ id \in DOMAIN new
      /\ new[id].unsubscribe_token = old[id].unsubscribe_token
      /\ new[id].product_id = old[id].product_id
      /\ new[id].email = old[id].email
      /\ ~old[id].active => ~new[id].active

C16_SoftDelete ==
    /\ req.kind = "unsubscribe" =>
         LET hit == {id \in DOMAIN req.before :
                       req.before[id].unsubscribe_token = req.token /\ req.before[id].active}
         IN  /\ Cardinality(hit) <= 1
             /\ req.status = (IF hit = {} THEN 404 ELSE 200)
             /\ DOMAIN req.after = DOMAIN req.before
             /\ \A id \in DOMAIN req.before :
                   req.after[id] = IF id \in hit
                                   THEN [req.before[id] EXCEPT !.active = FALSE]
                                   ELSE req.before[id]
    /\ req.kind # "none" => RowsKept(req.before, req.after) /\ RowsKept(req.after, subs)
    /\ RowsKept(subs0, subs)
    /\ \A id \in 1..Len(InitSubs) : id \in DOMAIN subs /\ (~InitSubs[id].active => ~subs[id].active)

\* the link of a row is followed a second time: the first request
\* deactivated the row, the second is answered 404
C16_Witness ==
    /\ req.kind = "unsubscribe"
    /\ req.status = 404
    /\ \E id \in DOMAIN req.before :
          /\ req.before[id].unsubscribe_token = req.token
          /\ ~req.before[id].active
          /\ InitSubs[id].active

\* the link of an active row is followed
C16_WitnessActive ==
    /\ req.kind = "unsubscribe"
    /\ req.status = 200
    /\ \E id \in DOMAIN req.before : req.before[id].active /\ ~subs[id].active

-----------------------------------------------------------------------------
(* C17: POST /api/alerts is answered 400, and adds no row, when product_id *)
(* is missing, email is missing, or email lacks '@' or '.'.  Any other     *)
(* request is answered 201 and adds exactly one row: active, never         *)
(* notified, with a token of 32 hex digits that no other row has, and with *)
(* threshold 5 when the request names none.                                *)

C17_PostValidates ==
    req.kind = "post" =>
      IF \/ req.body.product_id = ""
         \/ ~req.body.email.given
         \/ ~req.body.email.at
         \/ ~req.body.email.dot
      THEN req.status = 400 /\ req.after = req.before
      ELSE /\ req.status = 201
           /\ Len(req.after) = Len(req.before) + 1
           /\ \A id \in DOMAIN req.before : req.after[id] = req.before[id]
           /\ LET row == req.after[Len(req.after)]
              IN  /\ row.active
                  /\ row.last_notified = 0
                  /\ row.product_id = req.body.product_id
                  /\ row.email = req.body.email
                  /\ row.unsubscribe_token.hexDigits = 32
                  /\ row.unsubscribe_token = req.token
                  /\ \A id \in DOMAIN req.before :
                        req.before[id].unsubscribe_token # row.unsubscribe_token
                  /\ req.body.threshold_pct = NULL => row.threshold_pct = 5
                  /\ req.body.threshold_pct # NULL => row.threshold_pct = req.body.threshold_pct

\* an accepted request that names no threshold, the second request served,
\* the first having added no row
C17_Witness ==
    /\ req.kind = "post"
    /\ req.status = 201
    /\ req.body.threshold_pct = NULL
    /\ nreq = 2
    /\ Len(subs) = Len(InitSubs) + 1

\* a request whose email has an '@' and no '.'
C17_WitnessRejected ==
    /\ req.kind = "post"
    /\ req.status = 400
    /\ req.body.email.given /\ req.body.email.at /\ ~req.body.email.dot

-----------------------------------------------------------------------------
(* C18: a request for an image is redirected to the URL of a cache row     *)
(* only when the row was written less than 24 hours before; with an older  *)
(* row or none the page is fetched, and the redirect is the image found    *)
(* there, which is cached, or the placeholder, with the cache left as it   *)
(* was, when the fetch fails or finds no image.  A parameter that is not   *)
(* 10 letters or digits gets the placeholder and the cache is neither read *)
(* nor written.                                                            *)

C18_RowsFor == {row \in imgReq.before : row.asin = imgReq.asin.text}

C18_CacheTtl ==
    imgReq.kind = "get" =>
      LET wellFormed == imgReq.asin.chars = 10 /\ imgReq.asin.alnum
          recent == {row \in C18_RowsFor : imgReq.at - row.cached_at < 24}
      IN  /\ Cardinality(C18_RowsFor) <= 1
          /\ ~wellFormed =>
                /\ imgReq.location = "/img/placeholder.svg"
                /\ ~imgReq.read
                /\ imgReq.upstream.kind = "unused"
                /\ imageCache = imgReq.before
          /\ (wellFormed /\ recent # {}) =>
                /\ \A row \in recent : imgReq.location = row.image_url
                /\ imgReq.upstream.kind = "unused"
                /\ imageCache = imgReq.before
          /\ (wellFormed /\ recent = {}) =>
                /\ imgReq.upstream.kind \in {"fail", "none", "image"}
                /\ imgReq.upstream.kind \in {"fail", "none"} =>
                      (imgReq.location = "/img/placeholder.svg" /\ imageCache = imgReq.before)
                /\ imgReq.upstream.kind = "image" =>
                      /\ imgReq.location = imgReq.upstream.url
                      /\ imageCache = (imgReq.before \ C18_RowsFor) \cup
                            {[asin |-> imgReq.asin.text, image_url |-> imgReq.upstream.url,
                              cached_at |-> imgReq.at]}

\* a request that finds a row exactly 24 hours old, whose page then fails
\* to load
C18_Witness ==
    /\ imgReq.kind = "get"
    /\ \E row \in C18_RowsFor : imgReq.at - row.cached_at = 24
    /\ imgReq.upstream.kind = "fail"
    /\ imgReq.location = "/img/placeholder.svg"

\* a request served from a row 12 hours old
C18_WitnessCached ==
    /\ imgReq.kind = "get"
    /\ \E row \in C18_RowsFor :
          imgReq.at - row.cached_at = 12 /\ imgReq.location = row.image_url

-----------------------------------------------------------------------------
(* C19 as stated: when a run has completed, the price a catalog item shows *)
(* differs from the price prices.json shows for its product only if the   *)
(* product's last reported change was refused by the cap.                  *)

C19_StoresAgreeUnlessCapped ==
    pc = "done" =>
      \A i \in Entries : \A j \in CatalogItemsOf(i) :
        partsFile[j].price # pricesFile.products[i].priceDisplay =>
          HistoryKey(products[i]) \in capRejected

-----------------------------------------------------------------------------
(* C20: a catalog item whose price begins with "From" or contains          *)
(* "contact", whose URL is on a Discord host, or that has neither ASIN nor *)
(* URL has no worklist entry: no fetch is made for it, nothing about it    *)
(* is reported as changed or written to prices.json, and its catalog       *)
(* record stays as it was.                                                 *)

Unfetchable(item) ==
    \/ item.price.text = "From $"
    \/ item.price.text = "Contact on Discord"
    \/ item.url.host = "discord.com" \/ item.url.host = "discord.gg"
    \/ (item.asin = "" /\ item.url.host = "")

C20_SkippedItemsLeftOut ==
    pc \notin {"idle", "fatal"} =>
      \A j \in 1..Len(partsFile0) :
        Unfetchable(partsFile0[j]) =>
          /\ \A i \in Entries : products[i].name # partsFile0[j].name
          /\ \A i \in 1..Len(pricesFile.products) :
                pricesFile.products[i].name # partsFile0[j].name
          /\ Len(obs) = Len(products)
          /\ partsFile[j] = InitParts[j]

\* a completed second run over a catalog that holds an item of each of the
\* four kinds, after both tracked products were reported as changed
C20_Witness ==
    /\ pc = "done" /\ run = 2
    /\ Len(products) = 2
    /\ partsFile[1].price # InitParts[1].price
    /\ partsFile[2].price # InitParts[2].price
    /\ \E j \in 1..Len(partsFile) : partsFile[j].price.text = "From $"
    /\ \E j \in 1..Len(partsFile) : partsFile[j].price.text = "Contact on Discord"
    /\ \E j \in 1..Len(partsFile) : partsFile[j].url.host = "discord.gg"
    /\ \E j \in 1..Len(partsFile) :
          partsFile[j].asin = "" /\ partsFile[j].url.host = "" /\ partsFile[j].price.text = "$"

-----------------------------------------------------------------------------
(* C21: every price of a worklist entry, of prices.json and of a catalog   *)
(* item that shows an amount is above zero; an entry whose page gave zero  *)
(* or no number keeps the price it had.                                    *)

-----------------------------------------------------------------------------
(* C22 as stated: prices.json is not written before the reconciliation of  *)
(* the run has been computed, and parts.json is written only when          *)
(* something was reconciled.                                               *)

C22_ReconcileBeforeHistory ==
    /\ pc \in {"check", "send", "delay", "write_prices", "sync"} => pricesFile = pricesFile0
    /\ partsWritten => synced > 0

(* C22 as amended: a run past startup first checks every worklist entry in *)
(* turn, each ending as failed, unchanged or changed with its sends; then  *)
(* it writes prices.json; only then, and only when an entry was reported   *)
(* as changed, it computes the reconciliation and writes parts.json; then  *)
(* it is done.                                                             *)

C22_PhaseOrder ==
    /\ pc \in {"check", "send", "delay"} =>
         /\ idx \in Entries
         /\ \A i \in Entries : (i < idx => Fetched(i) /\ CheckOver(i)) /\ (i > idx => ~Fetched(i))
         /\ pricesFile = pricesFile0
         /\ partsData = partsFile0 /\ partsFile = partsFile0 /\ synced = 0 /\ ~partsWritten
    /\ pc = "write_prices" =>
         /\ \A i \in Entries : Fetched(i) /\ CheckOver(i)
         /\ pricesFile = pricesFile0
         /\ partsData = partsFile0 /\ partsFile = partsFile0 /\ synced = 0 /\ ~partsWritten
    /\ pc = "sync" =>
         /\ \A i \in Entries : Fetched(i) /\ CheckOver(i)
         /\ pricesFile.exists /\ pricesFile.products = products
         /\ pricesFile.lastRun = (run - 1) * (Len(partsFile) + 1) + Len(products) + 1
         /\ partsData = partsFile0 /\ partsFile = partsFile0 /\ synced = 0 /\ ~partsWritten
    /\ pc = "done" =>
         /\ pricesFile.exists /\ pricesFile.products = products
         /\ partsWritten <=> Len(changedProducts) > 0
         /\ partsFile = partsData
         /\ ~partsWritten => partsFile = partsFile0
    /\ \A i \in Entries :
         (Fetched(i) /\ CheckOver(i)) =>
           \/ obs[i].kind = "fail" /\ products[i] = products0[i]
           \/ obs[i].kind = "page" /\ products[i].price = products0[i].price
           \/ obs[i].kind = "page" /\ products[i].price = obs[i].price

\* prices.json holds the changed worklist of the run while the
\* reconciliation of its changed entry has yet to be computed
C22_Witness ==
    /\ pc = "sync"
    /\ Len(changedProducts) > 0
    /\ pricesFile.products = products
    /\ pricesFile # pricesFile0
    /\ synced = 0 /\ partsData = partsFile0

-----------------------------------------------------------------------------
(* C23: in a run the fetches and the delays alternate, entry by entry in   *)
(* worklist order: each entry is fetched once, its delay follows its check *)
(* and all its sends, whatever the fetch gave, and the fetch of the next   *)
(* entry follows that delay.  The delay is 3000 ms after an Amazon entry   *)
(* and 1500 ms after any other.                                            *)

C23_SequentialRateLimited ==
    /\ \A n \in 1..Len(events) :
         /\ events[n].i = (n + 1) \div 2
         /\ events[n].i \in Entries
         /\ events[n].ev = (IF n % 2 = 1 THEN "fetch" ELSE "delay")
         /\ events[n].ev = "delay" =>
              events[n].ms = (IF products[events[n].i].source = "amazon" THEN 3000 ELSE 1500)
    /\ \A n \in 1..Len(events) : \A m \in 1..Len(events) :
         (/\ events[n].ev = "delay" /\ events[m].ev = "delay"
          /\ products[events[n].i].source = "amazon"
          /\ products[events[m].i].source # "amazon") => events[n].ms > events[m].ms
    /\ pc = "check" => Len(events) = 2 * (idx - 1)
    /\ pc \in {"send", "delay"} => Len(events) = 2 * idx - 1
    /\ pc \in {"write_prices", "sync", "done"} => Len(events) = 2 * Len(products)
    /\ \A i \in Entries :
         Fetched(i) <=> (\E n \in 1..Len(events) : events[n].ev = "fetch" /\ events[n].i = i)
    /\ \A n \in 1..Len(sendLog) :
         \E m \in 1..Len(events) : events[m].ev = "fetch" /\ events[m].i = sendLog[n].i

\* a completed run whose first fetch failed and whose second entry had a
\* send: two fetches, two delays, the delay after the Amazon entry the longer
C23_Witness ==
    /\ pc = "done"
    /\ Len(events) = 4
    /\ obs[1].kind = "fail"
    /\ AttemptsFor(2) # {}
    /\ events[2].ms > events[4].ms

-----------------------------------------------------------------------------
(* C24: a worklist entry whose product has a record in prices.json, under  *)
(* its ASIN or else its URL, starts the run with the price, priceDisplay,  *)
(* lastChecked and lastChanged of that record; an entry without record     *)
(* starts with the price of its catalog item and has never been checked.   *)
(* The price an extracted price is compared against is that starting       *)
(* price.                                                                  *)

C24_KeyOf(r) == IF r.asin # "" THEN r.asin ELSE r.url.host \o r.url.path

C24_Records(i) ==
    {h \in 1..Len(pricesFile0.products) :
       C24_KeyOf(pricesFile0.products[h]) = C24_KeyOf(products0[i])}

C24_HistoryWins ==
    \A i \in 1..Len(products0) :
      /\ \A h \in C24_Records(i) :
           /\ products0[i].price = pricesFile0.products[h].price
           /\ products0[i].priceDisplay = pricesFile0.products[h].priceDisplay
           /\ products0[i].lastChecked = pricesFile0.products[h].lastChecked
           /\ products0[i].lastChanged = pricesFile0.products[h].lastChanged
      /\ C24_Records(i) = {} =>
           /\ \E j \in 1..Len(partsFile0) :
                /\ partsFile0[j].name = products0[i].name
                /\ products0[i].priceDisplay = partsFile0[j].price
                /\ products0[i].price = partsFile0[j].price.cents * 10
           /\ products0[i].lastChecked = 0
           /\ products0[i].lastChanged = 0
      /\ (i \in Entries /\ Fetched(i)) => obs[i].old = products0[i].price

\* a second run compares a page against the price the first run observed,
\* which the cap kept out of the catalog
C24_Witness ==
    /\ run = 2
    /\ \E i \in Entries : \E h \in C24_Records(i) : \E j \in 1..Len(partsFile0) :
         /\ partsFile0[j].name = products0[i].name
         /\ partsFile0[j].price # pricesFile0.products[h].priceDisplay
         /\ Fetched(i)
         /\ obs[i].old = pricesFile0.products[h].price

-----------------------------------------------------------------------------
(* C25: after the reconciliation, a catalog item with an ASIN under which  *)
(* a change was accepted shows the display string of that change's price;  *)
(* any other item with a URL under which a change of a product without     *)
(* ASIN was accepted shows the display string of that one; every other     *)
(* item is as it was; and the count returned is the number of items that   *)
(* took a price.  Of two accepted changes under one key the later wins.    *)

\* positions in the changed list of the changes the cap accepts
C25_Accepted ==
    {n \in 1..Len(changedProducts) :
       ObsPct(changedProducts[n]).diff * 100 <= 80 * ObsPct(changedProducts[n]).old}

C25_ByAsin(j) ==
    {n \in C25_Accepted :
       partsFile0[j].asin # "" /\ products[changedProducts[n]].asin = partsFile0[j].asin}

C25_ByUrl(j) ==
    {n \in C25_Accepted :
       /\ partsFile0[j].url.host # ""
       /\ products[changedProducts[n]].asin = ""
       /\ products[changedProducts[n]].url = partsFile0[j].url}

C25_Last(S) == CHOOSE n \in S : \A m \in S : m <= n

C25_Source(j) ==
    IF C25_ByAsin(j) # {} THEN C25_Last(C25_ByAsin(j))
    ELSE IF C25_ByUrl(j) # {} THEN C25_Last(C25_ByUrl(j))
    ELSE 0

C25_Reconciled ==
    pc = "done" =>
      /\ \A j \in 1..Len(partsFile0) :
           IF C25_Source(j) # 0
           THEN /\ partsFile[j].price =
                     [text |-> "$",
                      cents |-> (products[changedProducts[C25_Source(j)]].price + 5) \div 10]
                /\ partsFile[j].name = partsFile0[j].name
                /\ partsFile[j].asin = partsFile0[j].asin
                /\ partsFile[j].url = partsFile0[j].url
           ELSE partsFile[j] = partsFile0[j]
      /\ synced = Cardinality({j \in 1..Len(partsFile0) : C25_Source(j) # 0})

\* a reconciliation in which an item with ASIN and URL took its price by
\* URL, another took its price by ASIN, and the cap refused a third change
C25_Witness ==
    /\ pc = "done"
    /\ \E j \in 1..Len(partsFile0) :
         partsFile0[j].asin # "" /\ C25_ByAsin(j) = {} /\ C25_ByUrl(j) # {}
    /\ \E j \in 1..Len(partsFile0) : C25_ByAsin(j) # {}
    /\ Cardinality(C25_Accepted) < Len(changedProducts)
    /\ synced = 3

-----------------------------------------------------------------------------
(* C26: the generic extractor returns the number of the first selector     *)
(* whose text holds a price, whatever the rest of the markup holds; when   *)
(* no selector's text holds one, the least value above 5 and below 500,    *)
(* both exclusive, among the two-decimal dollar tokens of the markup; and  *)
(* null when there is no such token.                                       *)

\* the value a price text stands for, in thousandths of a dollar
RECURSIVE C26_Whole(_)
C26_Whole(groups) ==
    IF groups = << >> THEN 0
    ELSE C26_Whole(SubSeq(groups, 1, Len(groups) - 1)) * 1000 + groups[Len(groups)]

C26_Value(t) == C26_Whole(t.groups) * 1000 + t.cents * 10

C26_Selectors == {s \in 1..Len(html.found) : html.found[s] # NoMatch}

C26_Tokens ==
    {n \in 1..Len(html.tokens) :
       /\ html.tokens[n].groups # << >>
       /\ C26_Value(html.tokens[n]) > 5000
       /\ C26_Value(html.tokens[n]) < 500000}

C26_GenericExtractor ==
    html # NoPage =>
      IF C26_Selectors # {}
      THEN \E s \in C26_Selectors :
             /\ \A t \in C26_Selectors : s <= t
             /\ extracted = ParseNum(html.found[s])
      ELSE IF C26_Tokens # {}
           THEN /\ \E n \in C26_Tokens : extracted = C26_Value(html.tokens[n])
                /\ \A n \in C26_Tokens : extracted <= C26_Value(html.tokens[n])
           ELSE extracted = NULL

\* no selector holds a price and the markup has a token of exactly $5.00 or
\* $500.00 next to one in range, which is returned
C26_Witness ==
    /\ html # NoPage
    /\ C26_Selectors = {}
    /\ \E n \in 1..Len(html.tokens) : C26_Value(html.tokens[n]) \in {5000, 500000}
    /\ extracted = 12990

\* a selector holds a price and the markup a lower token in range
C26_WitnessSelector ==
    /\ html # NoPage
    /\ C26_Selectors # {}
    /\ \E n \in C26_Tokens : C26_Value(html.tokens[n]) < extracted
    /\ extracted = 1299000

\* nothing on the page is a price in range
C26_WitnessNull ==
    /\ html # NoPage
    /\ Len(html.tokens) > 0
    /\ extracted = NULL

-----------------------------------------------------------------------------
(* C27 as stated: an entry whose price was changed in memory by its check  *)
(* is reported as changed, and so offered to the reconciliation, and has   *)
(* its lastChecked advanced to the time of the check, also when the        *)
(* notification step of the check threw.                                   *)

C27_NotifyFailureKeepsChange ==
    \A i \in Entries :
      (CheckOver(i) /\ products[i].price # products0[i].price) =>
        /\ i \in Range(changedProducts)
        /\ products[i].lastChecked = CheckTime(i)

-----------------------------------------------------------------------------
(* C28 as stated: when a run has completed, the numeric price of every     *)
(* catalog item lies within 80% of the price the catalog held for the item *)
(* when the run started.                                                   *)

C28_CatalogMoveCapped ==
    pc = "done" =>
      \A j \in 1..Len(partsFile0) :
        partsFile[j].price # partsFile0[j].price =>
          Abs(parsePartsPrice(partsFile[j].price) - parsePartsPrice(partsFile0[j].price)) * 100
            <= MAX_CHANGE * parsePartsPrice(partsFile0[j].price)

-----------------------------------------------------------------------------
(* C29 as stated: every notification of a run gives as old price the price *)
(* the catalog showed for the product when the run started, and its new    *)
(* price is below that catalog price.                                      *)

C29_OldPriceIsCatalogPrice ==
    \A n \in 1..Len(sendLog) : \A j \in CatalogItemsOf(sendLog[n].i) :
      /\ formatPartsPrice(obs[sendLog[n].i].old) = partsFile0[j].price
      /\ obs[sendLog[n].i].price < parsePartsPrice(partsFile0[j].price)

-----------------------------------------------------------------------------
(* C30 as stated: with the alerts routes serving requests while a run is   *)
(* under way, no send is started to a subscription whose unsubscribe has   *)
(* completed, and a subscription the last unsubscribe request left         *)
(* inactive is inactive in the table.                                      *)

C30_NoEmailAfterUnsubscribe ==
    /\ \A n \in 1..Len(sendLog) : sendLog[n].active
    /\ req.kind = "unsubscribe" =>
         \A id \in DOMAIN req.after : ~req.after[id].active => ~subs[id].active

\* the half of C30 about the update of last_notified
C30_UnsubscribeStays ==
    req.kind = "unsubscribe" =>
      \A id \in DOMAIN req.after : ~req.after[id].active => ~subs[id].active

=============================================================================
